---- MODULE Spec2Model ----
(***************************************************************************)
(* Model of polars_eda.py: a straight-line benchmark script that reads     *)
(* data8277.csv into a polars DataFrame (and once more with pandas) and    *)
(* then runs select, with_columns/drop, filter, sort, group_by/agg, join   *)
(* and concat on it, printing one timing line after each block.            *)
(*                                                                         *)
(* Python names are bound to objects: `env` maps a name to an object id,   *)
(* `heap` maps object ids to DataFrame values.  Every DataFrame method     *)
(* call allocates a new object; an assignment rebinds a name.              *)
(*                                                                         *)
(* A DataFrame is [columns, dtypes, rows]; a row maps column names to      *)
(* cells; a cell is <<>> (null) or <<v>>.  Float64 values are kept as      *)
(* <<whole, hundredths>>, which is exact for every float the script makes  *)
(* (Age * 1.0 and a mean rounded to 2 places).                             *)
(***************************************************************************)
EXTENDS Integers, Sequences, FiniteSets, TLC

VARIABLES csv, pc, err, env, heap, out

vars == <<csv, pc, err, env, heap, out>>

\* Largest number of data lines in the modelled csv file.
MaxRows == 2

----------------------------------------------------------------------------
(* Generic helpers *)

Null == <<>>

Some(v) == <<v>>

Range(s) == {s[i] : i \in 1..Len(s)}

RECURSIVE Flatten(_)
Flatten(ss) == IF ss = <<>> THEN <<>> ELSE Head(ss) \o Flatten(Tail(ss))

Float(whole, hundredths) == <<whole, hundredths>>

----------------------------------------------------------------------------
(* The input file *)

\* Column names of data8277.csv, in file order (the columns df3 repeats).
AllColumns == <<"Year", "Age", "Ethnic", "Sex", "Area", "count">>

DropName(cols, name) == SelectSeq(cols, LAMBDA c : c # name)

\* Headers of the modelled files: the full one, and files lacking a column
\* that select, with_columns or concat needs.
Headers ==
    {AllColumns, DropName(AllColumns, "Age"), DropName(AllColumns, "Sex"),
     DropName(AllColumns, "Area")}

\* Text of the cells a modelled file may hold in the columns the script
\* computes with or concatenates.  "" is an empty field; "..C" is the text
\* the census file uses for a suppressed count; "Total" is an area given by
\* a word, which makes Area a text column.
CellTexts(c) ==
    CASE c = "Year"  -> {"2005", "2006", "2007", "2010", "2013", "2018", ""}
      [] c = "Sex"   -> {"1", "2", "3", ""}
      [] c = "Area"  -> {"1", "Total"}
      [] c = "count" -> {"1", "2147483647", "..C"}

\* Decimal integer literals and the numbers they spell.
IntLiteral ==
    ("1" :> 1) @@ ("2" :> 2) @@ ("3" :> 3) @@ ("30" :> 30) @@
    ("2005" :> 2005) @@ ("2006" :> 2006) @@ ("2007" :> 2007) @@
    ("2010" :> 2010) @@ ("2013" :> 2013) @@ ("2018" :> 2018) @@
    ("2147483647" :> 2147483647)

BaseLine ==
    [Year |-> "2006", Age |-> "30", Ethnic |-> "1", Sex |-> "1", Area |-> "1",
     count |-> "1"]

Replaced(line) ==
    {[line EXCEPT ![c] = t] : <<c, t>> \in
        UNION {{<<k, x>> : x \in CellTexts(k)} :
                  k \in {"Year", "Sex", "Area", "count"}}}

\* The lines of the modelled files: the base line with one cell replaced,
\* and the same without a Year.
FullLines == Replaced(BaseLine) \cup Replaced([BaseLine EXCEPT !["Year"] = ""])

LinesOf(header) == {[c \in Range(header) |-> l[c]] : l \in FullLines}

\* Every column the reader has to infer holds a value in the modelled files
\* (a column of empty fields only has no values to infer a dtype from).
Inferable(file) ==
    \A c \in Range(file.header) :
        c = "count" \/ \E i \in 1..Len(file.lines) : file.lines[i][c] # ""

Files ==
    {f \in UNION {[header : {h}, lines : UNION {[1..n -> LinesOf(h)] : n \in 1..MaxRows}] :
                    h \in Headers} : Inferable(f)}

----------------------------------------------------------------------------
(* DataFrames *)

Frame(columns, dtypes, rows) ==
    [columns |-> columns, dtypes |-> dtypes, rows |-> rows]

NoFrame == Frame(<<>>, <<>>, <<>>)

Ok(df) == [err |-> "", df |-> df]

Error(kind) == [err |-> kind, df |-> NoFrame]

HasColumns(df, names) == names \subseteq Range(df.columns)

----------------------------------------------------------------------------
(* 1. Read data as dataframe *)

\* schema_overrides={"count": pl.Int32}
schema_overrides == [count |-> "Int32"]

\* The dtype polars gives a column: the override if there is one, else the
\* inferred one (Int64 when every non-empty cell is an integer literal and
\* there is one, String otherwise).
csv_dtype(file, col) ==
    IF col \in DOMAIN schema_overrides THEN schema_overrides[col]
    ELSE IF /\ \E i \in 1..Len(file.lines) : file.lines[i][col] # ""
            /\ \A i \in 1..Len(file.lines) :
                  file.lines[i][col] \in DOMAIN IntLiteral \cup {""}
         THEN "Int64"
         ELSE "String"

\* Does the text decode under the dtype?
Decodes(text, dtype) ==
    dtype = "String" \/ text = "" \/ text \in DOMAIN IntLiteral

\* The cell a text is read as: null for an empty field and, with
\* ignore_errors, for a text that does not decode.
parse_cell(text, dtype) ==
    IF text = "" THEN Null
    ELSE IF dtype = "String" THEN Some(text)
    ELSE IF text \in DOMAIN IntLiteral THEN Some(IntLiteral[text])
    ELSE Null

Malformed(file, i) ==
    \E c \in Range(file.header) : ~Decodes(file.lines[i][c], csv_dtype(file, c))

\* read_csv as if ignore_errors dropped the lines that do not decode.
read_csv_skip_rows(file, ignore_errors) ==
    LET dtypes == [c \in Range(file.header) |-> csv_dtype(file, c)]
        row(l) == [c \in Range(file.header) |-> parse_cell(l[c], dtypes[c])]
        good == SelectSeq(file.lines,
                          LAMBDA l : \A c \in Range(file.header) : Decodes(l[c], dtypes[c]))
    IN  IF ~ignore_errors /\ good # file.lines
        THEN Error("ParseError")
        ELSE Ok(Frame(file.header, dtypes, [i \in 1..Len(good) |-> row(good[i])]))

\* pl.read_csv(source, has_header=True, separator=',', try_parse_dates=True,
\*             schema_overrides=..., ignore_errors=..., encoding='utf8')
read_csv(file, ignore_errors) ==
    LET dtypes == [c \in Range(file.header) |-> csv_dtype(file, c)]
        row(l) == [c \in Range(file.header) |-> parse_cell(l[c], dtypes[c])]
    IN  IF ~ignore_errors /\ \E i \in 1..Len(file.lines) : Malformed(file, i)
        THEN Error("ParseError")
        ELSE Ok(Frame(file.header, dtypes,
                      [i \in 1..Len(file.lines) |-> row(file.lines[i])]))

\* The dtype pandas gives a column: object if it holds text that is no
\* number, float64 if it holds an empty field, int64 otherwise.
pd_dtype(file, col) ==
    IF \E i \in 1..Len(file.lines) : file.lines[i][col] \notin DOMAIN IntLiteral \cup {""}
    THEN "object"
    ELSE IF \E i \in 1..Len(file.lines) : file.lines[i][col] = ""
         THEN "float64"
         ELSE "int64"

pd_cell(text, dtype) ==
    IF text = "" THEN Null
    ELSE IF dtype = "object" THEN Some(text)
    ELSE IF dtype = "float64" THEN Some(Float(IntLiteral[text], 0))
    ELSE Some(IntLiteral[text])

\* pd.read_csv(filepath_or_buffer, header=0, delimiter=',', parse_dates=True,
\*             encoding='utf8')
pd_read_csv(file) ==
    LET dtypes == [c \in Range(file.header) |-> pd_dtype(file, c)]
        row(l) == [c \in Range(file.header) |-> pd_cell(l[c], dtypes[c])]
    IN  Ok(Frame(file.header, dtypes, [i \in 1..Len(file.lines) |-> row(file.lines[i])]))

----------------------------------------------------------------------------
(* 2.a Selecting cols *)

\* pl.col(name), and (pl.col(name) * 1.0).alias(alias)
col(name) == [col |-> name, alias |-> name, times |-> ""]

times_float(name, alias) == [col |-> name, alias |-> alias, times |-> "1.0"]

\* cell * 1.0: the same number as a Float64; null stays null.
mul_float(cell) == IF cell = Null THEN Null ELSE Some(Float(cell[1], 0))

eval(e, row) == IF e.times = "" THEN row[e.col] ELSE mul_float(row[e.col])

\* df.select(exprs): only the listed expressions, one output row per input
\* row, in input order.
select(df, exprs) ==
    LET names == {exprs[i].alias : i \in 1..Len(exprs)}
        expr(n) == CHOOSE e \in Range(exprs) : e.alias = n
    IN  IF ~HasColumns(df, {exprs[i].col : i \in 1..Len(exprs)})
        THEN Error("MissingColumnError")
        ELSE Ok(Frame([i \in 1..Len(exprs) |-> exprs[i].alias],
                      [n \in names |->
                         IF expr(n).times = "" THEN df.dtypes[expr(n).col] ELSE "Float64"],
                      [i \in 1..Len(df.rows) |->
                         [n \in names |-> eval(expr(n), df.rows[i])]]))

----------------------------------------------------------------------------
(* 2.b Derive col *)

\* pl.when(pl.col("Sex") == 1).then(pl.lit('male'))
\*   .when(pl.col("Sex") == 2).then(pl.lit('female'))
\*   .otherwise(pl.lit('others'))
gender_branches == <<[eq |-> 1, then |-> "male"], [eq |-> 2, then |-> "female"]>>

gender_otherwise == "others"

\* when/then as if a null condition gave a null result.
when_then_null(cell, branches, otherwise) ==
    LET hits == {i \in 1..Len(branches) : cell # Null /\ branches[i].eq = cell[1]}
    IN  IF cell = Null THEN Null
        ELSE IF hits = {} THEN Some(otherwise)
        ELSE Some(branches[CHOOSE i \in hits : \A j \in hits : i <= j].then)

\* A comparison with null is null, and a null condition does not match.
RECURSIVE when_then(_, _, _)
when_then(cell, branches, otherwise) ==
    IF branches = <<>> THEN Some(otherwise)
    ELSE IF cell # Null /\ cell[1] = Head(branches).eq THEN Some(Head(branches).then)
    ELSE when_then(cell, Tail(branches), otherwise)

\* df.with_columns(name = when/then/otherwise over column src)
with_columns(df, name, src, branches, otherwise) ==
    IF ~HasColumns(df, {src}) THEN Error("MissingColumnError")
    ELSE Ok(Frame(IF name \in Range(df.columns) THEN df.columns
                  ELSE Append(df.columns, name),
                  [c \in Range(df.columns) \cup {name} |->
                     IF c = name THEN "String" ELSE df.dtypes[c]],
                  [i \in 1..Len(df.rows) |->
                     [c \in Range(df.columns) \cup {name} |->
                        IF c = name THEN when_then(df.rows[i][src], branches, otherwise)
                        ELSE df.rows[i][c]]]))

\* df.drop(names)
drop(df, names) ==
    IF ~HasColumns(df, names) THEN Error("MissingColumnError")
    ELSE LET keep == Range(df.columns) \ names
         IN  Ok(Frame(SelectSeq(df.columns, LAMBDA c : c \notin names),
                      [c \in keep |-> df.dtypes[c]],
                      [i \in 1..Len(df.rows) |-> [c \in keep |-> df.rows[i][c]]]))

----------------------------------------------------------------------------
(* 2.c Filter *)

\* df[name]: the column as a series of cells.
series(df, name) == [i \in 1..Len(df.rows) |-> df.rows[i][name]]

\* series < bound: a boolean series, null where the cell is null.
lt(cells, bound) ==
    [i \in 1..Len(cells) |-> IF cells[i] = Null THEN Null ELSE Some(cells[i][1] < bound)]

\* is_between as if the upper bound were excluded.
is_between_right_open(cells, lower, upper) ==
    [i \in 1..Len(cells) |->
        IF cells[i] = Null THEN Null
        ELSE Some(lower <= cells[i][1] /\ cells[i][1] < upper)]

\* series.is_between(lower, upper): closed on both sides, null where the
\* cell is null.
is_between(cells, lower, upper) ==
    [i \in 1..Len(cells) |->
        IF cells[i] = Null THEN Null
        ELSE Some(lower <= cells[i][1] /\ cells[i][1] <= upper)]

\* The indices, in order, at which the mask is true.
RECURSIVE true_indices(_)
true_indices(mask) ==
    IF mask = <<>> THEN <<>>
    ELSE LET init == true_indices(SubSeq(mask, 1, Len(mask) - 1))
         IN  IF mask[Len(mask)] = Some(TRUE) THEN Append(init, Len(mask)) ELSE init

\* df.filter(mask): the rows whose mask is true (not false, not null), in
\* order.
filter(df, mask) ==
    Ok(Frame(df.columns, df.dtypes,
             [k \in 1..Len(true_indices(mask)) |-> df.rows[true_indices(mask)[k]]]))

----------------------------------------------------------------------------
(* 2.d Sort *)

\* The order of cells as if null were the smallest value: first when
\* ascending, last when descending, whatever nulls_last says.
cell_before_nulls_smallest(a, b, descending, nulls_last) ==
    IF a = Null \/ b = Null
    THEN a # b /\ (IF descending THEN b = Null ELSE a = Null)
    ELSE IF descending THEN a[1] > b[1] ELSE a[1] < b[1]

\* Does cell a sort strictly before cell b?  Nulls go first, or last with
\* nulls_last, whatever the direction.
cell_before(a, b, descending, nulls_last) ==
    IF a = Null \/ b = Null
    THEN a # b /\ (IF nulls_last THEN b = Null ELSE a = Null)
    ELSE IF descending THEN a[1] > b[1] ELSE a[1] < b[1]

\* Keys are compared in the order of `by`.
RECURSIVE row_before(_, _, _, _, _)
row_before(r1, r2, by, descending, nulls_last) ==
    IF by = <<>> THEN FALSE
    ELSE IF cell_before(r1[Head(by)], r2[Head(by)], descending, nulls_last) THEN TRUE
    ELSE IF cell_before(r2[Head(by)], r1[Head(by)], descending, nulls_last) THEN FALSE
    ELSE row_before(r1, r2, Tail(by), descending, nulls_last)

same_keys(r1, r2, by) == \A k \in Range(by) : r1[k] = r2[k]

\* The rows in key order, rows with equal keys in input order.
RECURSIVE ordered(_, _, _, _)
ordered(rows, by, descending, nulls_last) ==
    IF rows = <<>> THEN <<>>
    ELSE LET n    == Len(rows)
             init == ordered(SubSeq(rows, 1, n - 1), by, descending, nulls_last)
             k    == Cardinality({i \in 1..(n - 1) :
                        ~row_before(rows[n], init[i], by, descending, nulls_last)})
         IN  SubSeq(init, 1, k) \o <<rows[n]>> \o SubSeq(init, k + 1, n - 1)

arrangements(run) ==
    {[i \in 1..Len(run) |-> run[f[i]]] : f \in Permutations(1..Len(run))}

\* maintain_order is not passed (default False): rows with equal keys may
\* come out in any order.
RECURSIVE tie_orders(_, _)
tie_orders(rows, by) ==
    IF rows = <<>> THEN {<<>>}
    ELSE LET n == Cardinality({i \in 1..Len(rows) : same_keys(rows[i], rows[1], by)})
         IN  {p \o t : p \in arrangements(SubSeq(rows, 1, n)),
                       t \in tie_orders(SubSeq(rows, n + 1, Len(rows)), by)}

\* df.sort(by=..., descending=..., nulls_last=...): the set of results the
\* call may return.
sort(df, by, descending, nulls_last) ==
    IF ~HasColumns(df, Range(by)) THEN {Error("MissingColumnError")}
    ELSE {Ok(Frame(df.columns, df.dtypes, rows)) :
            rows \in tie_orders(ordered(df.rows, by, descending, nulls_last), by)}

\* df.head(n)
head(df, n) ==
    Frame(df.columns, df.dtypes,
          SubSeq(df.rows, 1, IF Len(df.rows) < n THEN Len(df.rows) ELSE n))

----------------------------------------------------------------------------
(* 2.e Group by *)

\* Integers wider than 32 bits are kept as two limbs, value = hi * Limb + lo
\* with 0 <= lo < Limb.
Limb == 2^16

big(v) == [hi |-> v \div Limb, lo |-> v % Limb]

big_add(a, b) ==
    [hi |-> a.hi + b.hi + (a.lo + b.lo) \div Limb, lo |-> (a.lo + b.lo) % Limb]

values(cells) == SelectSeq(cells, LAMBDA c : c # Null)

\* The arithmetic sum of the non-null cells.
RECURSIVE exact_sum(_)
exact_sum(cells) ==
    IF cells = <<>> THEN big(0)
    ELSE IF Head(cells) = Null THEN exact_sum(Tail(cells))
    ELSE big_add(big(Head(cells)[1]), exact_sum(Tail(cells)))

\* Two's complement value of the low 32 bits.
wrap_int32(b) == (((b.hi + 2^15) % Limb) - 2^15) * Limb + b.lo

\* pl.col(c).sum(): nulls are skipped, the result has the column's dtype
\* (32-bit columns are summed in 32 bits), an empty sum is 0.
sum(cells, dtype) ==
    IF dtype = "Int32" THEN Some(wrap_int32(exact_sum(cells)))
    ELSE Some(exact_sum(cells).hi * Limb + exact_sum(cells).lo)

\* pl.col(c).mean().round(2): the Float64 mean of the non-null cells (null
\* if there is none) rounded to hundredths.
mean_round(cells, decimals) ==
    LET n  == Len(values(cells))
        s  == exact_sum(cells)
        lo == (s.hi % n) * Limb + s.lo
        whole == (s.hi \div n) * Limb + lo \div n
        frac  == (2 * (10^decimals) * (lo % n) + n) \div (2 * n)
    IN  IF n = 0 THEN Null
        ELSE IF frac = 10^decimals THEN Some(Float(whole + 1, 0))
        ELSE Some(Float(whole, frac))

\* The distinct cells, the last one to appear first.
RECURSIVE unique_last_first(_)
unique_last_first(cells) ==
    IF cells = <<>> THEN <<>>
    ELSE LET rest == unique_last_first(Tail(cells))
         IN  IF Head(cells) \in Range(rest) THEN rest ELSE Append(rest, Head(cells))

\* The distinct cells in order of first appearance.
RECURSIVE unique_stable(_)
unique_stable(cells) ==
    IF cells = <<>> THEN <<>>
    ELSE LET init == unique_stable(SubSeq(cells, 1, Len(cells) - 1))
             last == cells[Len(cells)]
         IN  IF last \in Range(init) THEN init ELSE Append(init, last)

column(df, c) == [i \in 1..Len(df.rows) |-> df.rows[i][c]]

\* df.group_by(["Year"], maintain_order=True).agg(
\*     pl.col("count").sum().alias('year_wise_total_count'),
\*     pl.col("count").mean().round(2).alias('year_wise_avg_count'),
\*     pl.col('gender'))
group_by_agg(df, key, num, listed) ==
    LET keys == unique_stable(column(df, key))
        members(k) == SelectSeq(df.rows, LAMBDA r : r[key] = k)
        of(k, c) == [i \in 1..Len(members(k)) |-> members(k)[i][c]]
        names == {key, "year_wise_total_count", "year_wise_avg_count", listed}
        row(k) == [c \in names |->
                     CASE c = key -> k
                       [] c = "year_wise_total_count" -> sum(of(k, num), df.dtypes[num])
                       [] c = "year_wise_avg_count" -> mean_round(of(k, num), 2)
                       [] OTHER -> Some(of(k, listed))]
    IN  IF ~HasColumns(df, {key, num, listed}) THEN Error("MissingColumnError")
        ELSE Ok(Frame(<<key, "year_wise_total_count", "year_wise_avg_count", listed>>,
                      [c \in names |->
                         CASE c = key -> df.dtypes[key]
                           [] c = "year_wise_total_count" -> df.dtypes[num]
                           [] c = "year_wise_avg_count" -> "Float64"
                           [] OTHER -> "List"],
                      [i \in 1..Len(keys) |-> row(keys[i])]))

----------------------------------------------------------------------------
(* 2.f combining DF *)

\* pl.DataFrame({name: [ints], ...}): Int64 columns in the order of the dict.
DataFrame(columns, data) ==
    Frame(columns, [c \in Range(columns) |-> "Int64"],
          [i \in 1..Len(data[columns[1]]) |-> [c \in Range(columns) |-> Some(data[c][i])]])

df2_data == [Year |-> <<2006, 2013, 2018, 2019>>]

df3_data ==
    [Year   |-> <<2020, 2021, 2022, 2023>>,
     Age    |-> <<0, 0, 0, 0>>,
     Ethnic |-> <<1, 2, 3, 4>>,
     Sex    |-> <<1, 2, 1, 2>>,
     Area   |-> <<1, 2, 3, 4>>,
     count  |-> <<1000, 2000, 3000, 4000>>]

\* join as if a left row were paired with its first partner only.
join_first_partner(left, right, on, how) ==
    LET extra == SelectSeq(right.columns, LAMBDA c : c # on)
        names == Range(left.columns) \cup Range(extra)
        partners(l) == SelectSeq(right.rows, LAMBDA r : l[on] # Null /\ r[on] = l[on])
        pair(l, r) == [c \in names |-> IF c \in Range(left.columns) THEN l[c] ELSE r[c]]
        alone(l) == [c \in names |-> IF c \in Range(left.columns) THEN l[c] ELSE Null]
        rows(l) == IF partners(l) # <<>> THEN <<pair(l, partners(l)[1])>>
                   ELSE IF how = "left" THEN <<alone(l)>> ELSE <<>>
    IN  IF ~HasColumns(left, {on}) \/ ~HasColumns(right, {on})
        THEN Error("MissingColumnError")
        ELSE Ok(Frame(left.columns \o extra,
                      [c \in names |->
                         IF c \in Range(left.columns) THEN left.dtypes[c] ELSE right.dtypes[c]],
                      Flatten([i \in 1..Len(left.rows) |-> rows(left.rows[i])])))

\* left.join(right, on=on, how=how): each left row is paired with every right
\* row of the same non-null key; a left row without a partner is dropped by
\* "inner" and kept once, with null right-hand columns, by "left".
join(left, right, on, how) ==
    LET extra == SelectSeq(right.columns, LAMBDA c : c # on)
        names == Range(left.columns) \cup Range(extra)
        partners(l) == SelectSeq(right.rows, LAMBDA r : l[on] # Null /\ r[on] = l[on])
        pair(l, r) == [c \in names |-> IF c \in Range(left.columns) THEN l[c] ELSE r[c]]
        alone(l) == [c \in names |-> IF c \in Range(left.columns) THEN l[c] ELSE Null]
        rows(l) == IF partners(l) # <<>>
                   THEN [j \in 1..Len(partners(l)) |-> pair(l, partners(l)[j])]
                   ELSE IF how = "left" THEN <<alone(l)>> ELSE <<>>
    IN  IF ~HasColumns(left, {on}) \/ ~HasColumns(right, {on})
        THEN Error("MissingColumnError")
        ELSE Ok(Frame(left.columns \o extra,
                      [c \in names |->
                         IF c \in Range(left.columns) THEN left.dtypes[c] ELSE right.dtypes[c]],
                      Flatten([i \in 1..Len(left.rows) |-> rows(left.rows[i])])))

\* supertype as if two integer widths met at the narrower one.
supertype_narrow(a, b) ==
    IF a = b THEN a
    ELSE IF "String" \in {a, b} THEN "String"
    ELSE "Int32"

\* The dtype two columns of the concatenated frames are both cast to.  The
\* frames hold Int32, Int64 and String columns: two integer widths meet at
\* the wider one, an integer and a String column at String.
supertype(a, b) ==
    IF a = b THEN a
    ELSE IF "String" \in {a, b} THEN "String"
    ELSE "Int64"

Digit == <<"0", "1", "2", "3", "4", "5", "6", "7", "8", "9">>

\* The decimal text of an integer.
RECURSIVE Str(_)
Str(n) ==
    IF n < 0 THEN "-" \o Str(-n)
    ELSE IF n < 10 THEN Digit[n + 1]
    ELSE Str(n \div 10) \o Digit[(n % 10) + 1]

\* Cast of a cell of dtype `from`: an integer becomes its decimal text as a
\* String; a wider integer dtype holds the same number, a narrower one its
\* low bits.
cast(cell, from, dtype) ==
    IF cell = Null THEN Null
    ELSE IF from = dtype THEN cell
    ELSE IF dtype = "String" THEN Some(Str(cell[1]))
    ELSE IF dtype = "Int32" THEN Some(wrap_int32(big(cell[1])))
    ELSE cell

\* pl.concat([a, b], how="vertical_relaxed"): a's rows, then b's, every column
\* cast to the supertype of its two dtypes; frames that do not have the same
\* columns are not concatenated.
concat(a, b) ==
    LET names == Range(a.columns)
        dtypes == [c \in names |-> supertype(a.dtypes[c], b.dtypes[c])]
        widen(r, from) == [c \in names |-> cast(r[c], from[c], dtypes[c])]
    IN  IF a.columns # b.columns THEN Error("SchemaMismatchError")
        ELSE Ok(Frame(a.columns, dtypes,
                      [i \in 1..Len(a.rows) |-> widen(a.rows[i], a.dtypes)]
                         \o [i \in 1..Len(b.rows) |-> widen(b.rows[i], b.dtypes)]))

----------------------------------------------------------------------------
(* The interpreter state *)

Names ==
    {"df", "df_pd", "df_year_age", "df_derive", "df_basic_filter",
     "df_basic_filter_range", "df_year_wise_count", "df2", "df_left_join",
     "df_inner_join", "df3", "df_concat"}

\* Alloc as if a call wrote its result into the newest object.
Alloc_in_place(h, line, v) ==
    IF h = <<>> THEN <<[line |-> line, df |-> v]>>
    ELSE [h EXCEPT ![Len(h)] = [line |-> line, df |-> v]]

\* A call allocates a new object for its result; objects carry the source
\* line of the call that made them.
Alloc(h, line, v) == Append(h, [line |-> line, df |-> v])

\* An expression statement or a chained call: the result is bound to no name.
Temp(st, line, v) == [heap |-> Alloc(st.heap, line, v), env |-> st.env]

\* name = <call at line `line`, of value v>
Assign(st, name, line, v) ==
    [heap |-> Alloc(st.heap, line, v),
     env  |-> [st.env EXCEPT ![name] = Len(Alloc(st.heap, line, v))]]

Bound(name) == env[name] # 0

Val(name) == heap[env[name]].df

Made(line) == \E i \in 1..Len(heap) : heap[i].line = line

At(line) ==
    IF Made(line) THEN heap[CHOOSE i \in 1..Len(heap) : heap[i].line = line].df
    ELSE NoFrame

\* The blocks of the script, in file order, and the timing line each prints.
Steps ==
    <<"load", "load_pd", "select", "derive", "filter", "sort", "group",
      "join", "concat">>

TimingLine ==
    [load    |-> "Time to fetch the csv file: ",
     load_pd |-> "Time to fetch the csv file: ",
     select  |-> "execution time for selecting cols: ",
     derive  |-> "time to create derive col: ",
     filter  |-> "time to filter data: ",
     sort    |-> "Time to sort data: ",
     group   |-> "time to aggregate data: ",
     join    |-> "Time to join data: ",
     concat  |-> "time to concat data: "]

StepIndex(s) ==
    IF s \in Range(Steps) THEN CHOOSE i \in 1..Len(Steps) : Steps[i] = s
    ELSE Len(Steps) + 1

AfterStep(s) == IF StepIndex(s) < Len(Steps) THEN Steps[StepIndex(s) + 1] ELSE "done"

Init ==
    /\ csv \in Files
    /\ pc = "load"
    /\ err = ""
    /\ env = [n \in Names |-> 0]
    /\ heap = <<>>
    /\ out = <<>>

\* Raise as if the script went on to the next block after an exception.
Raise_and_continue(step, kind, st) ==
    /\ err' = kind
    /\ pc' = AfterStep(step)
    /\ env' = st.env
    /\ heap' = st.heap
    /\ out' = Append(out, TimingLine[step])
    /\ UNCHANGED csv

\* An exception ends the script inside the block: `st` is what the statements
\* of the block before the failing one have allocated and bound, which stays;
\* the failing statement binds nothing and the block's print is not reached.
Raise(step, kind, st) ==
    /\ err' = kind
    /\ env' = st.env
    /\ heap' = st.heap
    /\ UNCHANGED <<csv, pc, out>>

\* The block ran to its end: its assignments have taken effect, the timing
\* line is printed and the next block is up.
Finish(step, st) ==
    /\ pc' = AfterStep(step)
    /\ env' = st.env
    /\ heap' = st.heap
    /\ out' = Append(out, TimingLine[step])
    /\ UNCHANGED <<csv, err>>

Now == [heap |-> heap, env |-> env]

Load ==
    /\ pc = "load" /\ err = ""
    /\ LET res == read_csv(csv, TRUE)
       IN  IF res.err # "" THEN Raise("load", res.err, Now)
           ELSE Finish("load", Assign(Now, "df", 33, res.df))

LoadPandas ==
    /\ pc = "load_pd" /\ err = ""
    /\ LET res == pd_read_csv(csv)
       IN  IF res.err # "" THEN Raise("load_pd", res.err, Now)
           ELSE Finish("load_pd", Assign(Now, "df_pd", 56, res.df))

SelectCols ==
    /\ pc = "select" /\ err = ""
    /\ LET first == select(Val("df"), <<col("Year"), col("Age")>>)
       IN  IF first.err # "" THEN Raise("select", first.err, Now)
           ELSE LET bound  == Assign(Now, "df_year_age", 113, first.df)
                    second == select(Val("df"),
                                     <<col("Year"), times_float("Age", "Age*1.0")>>)
                IN  IF second.err # "" THEN Raise("select", second.err, bound)
                    ELSE Finish("select",
                                Assign(bound, "df_year_age", 117, second.df))

DeriveCol ==
    /\ pc = "derive" /\ err = ""
    /\ LET added == with_columns(Val("df"), "gender", "Sex",
                                 gender_branches, gender_otherwise)
       IN  IF added.err # "" THEN Raise("derive", added.err, Now)
           ELSE LET bound   == Assign(Now, "df_derive", 140, added.df)
                    dropped == drop(added.df, {"Sex"})
                IN  IF dropped.err # "" THEN Raise("derive", dropped.err, bound)
                    ELSE Finish("derive",
                                Assign(bound, "df_derive", 148, dropped.df))

Filter ==
    /\ pc = "filter" /\ err = ""
    /\ IF ~HasColumns(Val("df_derive"), {"Year"})
       THEN Raise("filter", "MissingColumnError", Now)
       ELSE LET basic == filter(Val("df_derive"), lt(series(Val("df_derive"), "Year"), 2007))
                range == filter(Val("df_derive"),
                                is_between(series(Val("df_derive"), "Year"), 2006, 2013))
            IN  Finish("filter",
                       Assign(Assign(Now, "df_basic_filter", 168, basic.df),
                              "df_basic_filter_range", 175, range.df))

Sort ==
    /\ pc = "sort" /\ err = ""
    /\ \E res \in sort(Val("df_derive"), <<"Year", "count">>, FALSE, TRUE) :
          IF res.err # "" THEN Raise("sort", res.err, Now)
          ELSE Finish("sort", Assign(Now, "df_derive", 198, res.df))

GroupBy ==
    /\ pc = "group" /\ err = ""
    /\ LET res == group_by_agg(Val("df_derive"), "Year", "count", "gender")
       IN  IF res.err # "" THEN Raise("group", res.err, Now)
           ELSE Finish("group", Assign(Now, "df_year_wise_count", 216, res.df))

\* df2 (line 250) is bound before the first join; the left join and its sort
\* (268-272) are done before the inner join (277-279) is tried.
Join ==
    /\ pc = "join" /\ err = ""
    /\ LET df2   == DataFrame(<<"Year">>, df2_data)
           made  == Assign(Now, "df2", 250, df2)
           left  == join(df2, Val("df"), "Year", "left")
           inner == join(Val("df"), df2, "Year", "inner")
       IN  IF left.err # "" THEN Raise("join", left.err, made)
           ELSE \E l \in sort(left.df, <<"Year">>, TRUE, FALSE) :
                   IF l.err # "" THEN Raise("join", l.err, Temp(made, 268, left.df))
                   ELSE LET lefted == Assign(Temp(made, 268, left.df),
                                             "df_left_join", 271, l.df)
                        IN  IF inner.err # "" THEN Raise("join", inner.err, lefted)
                            ELSE \E i \in sort(inner.df, <<"Year">>, TRUE, FALSE) :
                                    IF i.err # ""
                                    THEN Raise("join", i.err, Temp(lefted, 277, inner.df))
                                    ELSE Finish("join",
                                                Assign(Temp(lefted, 277, inner.df),
                                                       "df_inner_join", 279, i.df))

\* df3 (line 298) is bound before pl.concat (316) is tried.
Concat ==
    /\ pc = "concat" /\ err = ""
    /\ LET df3  == DataFrame(AllColumns, df3_data)
           made == Assign(Now, "df3", 298, df3)
           res  == concat(Val("df"), df3)
       IN  IF res.err # "" THEN Raise("concat", res.err, made)
           ELSE LET joined == Assign(made, "df_concat", 316, res.df)
                IN  \E s \in sort(res.df, <<"Year">>, TRUE, FALSE) :
                       IF s.err # "" THEN Raise("concat", s.err, joined)
                       ELSE Finish("concat",
                                   Temp(Temp(joined, 319, s.df), 320, head(s.df, 5)))

Next ==
    \/ Load \/ LoadPandas \/ SelectCols \/ DeriveCol \/ Filter
    \/ Sort \/ GroupBy \/ Join \/ Concat

Spec == Init /\ [][Next]_vars

----------------------------------------------------------------------------
(* Properties *)

\* The block has run to its end.
Ran(step) == StepIndex(pc) > StepIndex(step)

Count(seq, x) == Cardinality({i \in 1..Len(seq) : seq[i] = x})

Indices(seq) == 1..Len(seq)

\* ---- C1 ----------------------------------------------------------------

\* Indices of the rows of df whose Year equals that of row l.
Partners(l) == {k \in Indices(Val("df").rows) : Val("df").rows[k].Year = l.Year}

RightColumns == Range(Val("df").columns) \ {"Year"}

\* C1 as claimed: the left join df2.join(df, on="Year", how="left") has
\* exactly as many rows as df2, every df2 row appears in it, and a row whose
\* Year has no partner in df has null right-hand columns.
C1_LeftJoinKeepsLeftRowCount ==
    Ran("join") =>
        LET L == Val("df2").rows
            J == Val("df_left_join").rows
        IN  /\ Len(J) = Len(L)
            /\ \A i \in Indices(L) : \E j \in Indices(J) : J[j].Year = L[i].Year
            /\ \A j \in Indices(J) :
                  Partners(J[j]) = {} => \A c \in RightColumns : J[j][c] = Null

\* C1 amended: the left join has one row per pair of a df2 row and a df row
\* of the same Year, and one row with null right-hand columns for a df2 row
\* without partner; so it has at least |df2| rows, and exactly |df2| when no
\* Year of df2 occurs twice in df.
C1_LeftJoinRowPerMatch ==
    Ran("join") =>
        LET L == Val("df2").rows
            R == Val("df").rows
            J == Val("df_left_join").rows
        IN  /\ \A i \in Indices(L) :
                  Cardinality({j \in Indices(J) : J[j].Year = L[i].Year})
                     = IF Partners(L[i]) = {} THEN 1 ELSE Cardinality(Partners(L[i]))
            /\ \A j \in Indices(J) : \E i \in Indices(L) : J[j].Year = L[i].Year
            /\ Len(J) >= Len(L)
            /\ (\A i \in Indices(L) : Cardinality(Partners(L[i])) <= 1) => Len(J) = Len(L)
            /\ \A j \in Indices(J) :
                  IF Partners(J[j]) = {}
                  THEN \A c \in RightColumns : J[j][c] = Null
                  ELSE \E k \in Partners(J[j]) : \A c \in RightColumns : J[j][c] = R[k][c]
            /\ \A k \in Indices(R) :
                  (\E i \in Indices(L) : L[i].Year = R[k].Year)
                     => Count(J, R[k]) = Count(R, R[k])

\* A left join over a df in which a Year of df2 occurs twice.
C1_Witness ==
    /\ Ran("join")
    /\ \E i \in Indices(Val("df2").rows) : Cardinality(Partners(Val("df2").rows[i])) = 2
    /\ \E i \in Indices(Val("df2").rows) : Partners(Val("df2").rows[i]) = {}
    /\ Len(Val("df_left_join").rows) = Len(Val("df2").rows) + 1

\* ---- C2 ----------------------------------------------------------------

\* Order of two key cells as the claim has it: by value in the direction of
\* the sort, nulls after everything.
ClaimCellBefore(a, b, descending) ==
    IF a = Null THEN FALSE
    ELSE IF b = Null THEN TRUE
    ELSE IF descending THEN a[1] > b[1] ELSE a[1] < b[1]

\* Order of two key cells of the descending sorts, which pass no nulls_last:
\* nulls before everything.
NullsFirstCellBefore(a, b, descending) ==
    IF b = Null THEN FALSE
    ELSE IF a = Null THEN TRUE
    ELSE IF descending THEN a[1] > b[1] ELSE a[1] < b[1]

RECURSIVE KeysBefore(_, _, _, _, _)
KeysBefore(r1, r2, by, descending, nulls_last) ==
    IF by = <<>> THEN FALSE
    ELSE LET a == r1[Head(by)]
             b == r2[Head(by)]
             lt12 == IF nulls_last THEN ClaimCellBefore(a, b, descending)
                     ELSE NullsFirstCellBefore(a, b, descending)
             lt21 == IF nulls_last THEN ClaimCellBefore(b, a, descending)
                     ELSE NullsFirstCellBefore(b, a, descending)
         IN  lt12 \/ (~lt21 /\ KeysBefore(r1, r2, Tail(by), descending, nulls_last))

\* Position of input row k in the stable arrangement of the input.
StableRank(in, k, by, descending, nulls_last) ==
    1 + Cardinality({j \in Indices(in) : KeysBefore(in[j], in[k], by, descending, nulls_last)})
      + Cardinality({j \in 1..(k - 1) :
                        ~KeysBefore(in[k], in[j], by, descending, nulls_last)
                        /\ ~KeysBefore(in[j], in[k], by, descending, nulls_last)})

IsStableSort(in, res, by, descending, nulls_last) ==
    /\ Len(res) = Len(in)
    /\ \A k \in Indices(in) : res[StableRank(in, k, by, descending, nulls_last)] = in[k]

IsSomeSort(in, res, by, descending, nulls_last) ==
    /\ Len(res) = Len(in)
    /\ \A k \in Indices(in) : Count(res, in[k]) = Count(in, in[k])
    /\ \A i, j \in Indices(res) :
          i < j => ~KeysBefore(res[j], res[i], by, descending, nulls_last)

\* C2 as claimed: every sort of the script (by Year and count; descending by
\* Year after the joins and the concat) puts the rows in key order, keys in
\* priority order, null keys last whatever the direction, and rows of equal
\* keys in input order.
C2_StableNullsLast ==
    /\ Made(198) => IsStableSort(At(148).rows, At(198).rows, <<"Year", "count">>, FALSE, TRUE)
    /\ Made(271) => IsStableSort(At(268).rows, At(271).rows, <<"Year">>, TRUE, TRUE)
    /\ Made(279) => IsStableSort(At(277).rows, At(279).rows, <<"Year">>, TRUE, TRUE)
    /\ Made(319) => IsStableSort(At(316).rows, At(319).rows, <<"Year">>, TRUE, TRUE)

\* C2 amended: every sort of the script returns the rows of its input in key
\* order, keys in priority order; the two-key sort (nulls_last=True) puts
\* null keys last, the descending sorts by Year put rows with a null Year
\* first; the order of rows with equal keys is not fixed.
C2_SortedByKeys ==
    /\ Made(198) => IsSomeSort(At(148).rows, At(198).rows, <<"Year", "count">>, FALSE, TRUE)
    /\ Made(271) => IsSomeSort(At(268).rows, At(271).rows, <<"Year">>, TRUE, FALSE)
    /\ Made(279) => IsSomeSort(At(277).rows, At(279).rows, <<"Year">>, TRUE, FALSE)
    /\ Made(319) => IsSomeSort(At(316).rows, At(319).rows, <<"Year">>, TRUE, FALSE)

\* All sorts have run on a file with a null Year: that row is last after the
\* two-key sort and first after the descending sort of the concat.
C2_Witness ==
    /\ Made(319)
    /\ At(198).rows[Len(At(198).rows)].Year = Null
    /\ At(198).rows[1].Year # Null
    /\ At(319).rows[1].Year = Null

\* ---- C3 ----------------------------------------------------------------

\* The column of the file is read as text: it has no dtype override and
\* holds a field that is no number.
TextColumn(c) ==
    c # "count" /\ \E i \in 1..Len(csv.lines) : csv.lines[i][c] \notin DOMAIN IntLiteral \cup {""}

TextDecodes(t, c) == t = "" \/ t \in DOMAIN IntLiteral \/ TextColumn(c)

LineDecodes(l) == \A c \in DOMAIN l : TextDecodes(l[c], c)

DecodedLine(l) ==
    [c \in DOMAIN l |->
        IF l[c] = "" THEN Null
        ELSE IF TextColumn(c) THEN Some(l[c])
        ELSE IF l[c] \in DOMAIN IntLiteral THEN Some(IntLiteral[l[c]])
        ELSE Null]

\* C3 as claimed: the loaded df holds exactly the lines that decode (a line
\* with a cell that does not decode is absent), count is Int32, and without
\* error tolerance such a file fails with ParseError.
C3_MalformedRowsSkipped ==
    Ran("load") =>
        LET good == SelectSeq(csv.lines, LineDecodes)
        IN  /\ Val("df").rows = [i \in Indices(good) |-> DecodedLine(good[i])]
            /\ Val("df").dtypes["count"] = "Int32"
            /\ (good # csv.lines => read_csv(csv, FALSE).err = "ParseError")

\* C3 amended: the loaded df holds one row per line of the file, in file
\* order; a cell that does not decode is null in its row and the other cells
\* of the row keep their values; count is Int32; without error tolerance a
\* file with such a cell fails with ParseError.
C3_MalformedCellsNull ==
    Ran("load") =>
        /\ Val("df").rows = [i \in Indices(csv.lines) |-> DecodedLine(csv.lines[i])]
        /\ Val("df").columns = csv.header
        /\ Val("df").dtypes["count"] = "Int32"
        /\ read_csv(csv, FALSE).err =
              IF \A i \in Indices(csv.lines) : LineDecodes(csv.lines[i]) THEN "" ELSE "ParseError"

\* A file with a count that does not decode has been loaded, next to a line
\* that decodes.
C3_Witness ==
    /\ Ran("load")
    /\ Len(csv.lines) = 2
    /\ ~LineDecodes(csv.lines[1])
    /\ LineDecodes(csv.lines[2])
    /\ Val("df").rows[1]["count"] = Null
    /\ Val("df").rows[1].Year # Null

\* ---- C4 ----------------------------------------------------------------

\* C4 as claimed: year_wise_total_count of every group is the arithmetic sum
\* of the counts of the group's rows, also beyond the 32-bit range.
C4_SumIsArithmetic ==
    Ran("group") =>
        \A g \in Indices(Val("df_year_wise_count").rows) :
            LET row == Val("df_year_wise_count").rows[g]
                members == SelectSeq(At(198).rows, LAMBDA r : r.Year = row.Year)
            IN  big(row.year_wise_total_count[1])
                   = exact_sum([i \in Indices(members) |-> members[i]["count"]])

\* ---- C5 ----------------------------------------------------------------

FirstIndex(seq, x) == CHOOSE i \in Indices(seq) : seq[i] = x /\ \A j \in 1..(i - 1) : seq[j] # x

\* C5: the aggregate has one row per distinct Year of its input, a null Year
\* being one key; the rows are in order of first appearance of their key;
\* there are no more rows than input rows; the gender list of a group holds
\* the gender of each of its rows, one entry per row.
C5_OneRowPerYear ==
    Ran("group") =>
        LET D == At(198).rows
            G == Val("df_year_wise_count").rows
            years == [i \in Indices(D) |-> D[i].Year]
        IN  /\ {G[g].Year : g \in Indices(G)} = Range(years)
            /\ \A g, h \in Indices(G) : g # h => G[g].Year # G[h].Year
            /\ \A g, h \in Indices(G) :
                  g < h => FirstIndex(years, G[g].Year) < FirstIndex(years, G[h].Year)
            /\ Len(G) <= Len(D)
            /\ \A g \in Indices(G) :
                  LET members == SelectSeq(D, LAMBDA r : r.Year = G[g].Year)
                  IN  G[g].gender = Some([i \in Indices(members) |-> members[i].gender])

\* Two groups, the second one the null Year.
C5_Witness ==
    /\ Ran("group")
    /\ Len(Val("df_year_wise_count").rows) = 2
    /\ Val("df_year_wise_count").rows[2].Year = Null
    /\ Len(At(198).rows) = 2

\* ---- C6 ----------------------------------------------------------------

GenderOf(sex) ==
    IF sex = Some(1) THEN "male" ELSE IF sex = Some(2) THEN "female" ELSE "others"

SexScenario == DataFrame(<<"Sex">>, [Sex |-> <<1, 2, 3>>])

\* C6: gender is 'male' for Sex 1, else 'female' for Sex 2, else 'others'
\* (also for a null Sex), one value per row; the derived frame has the rows
\* of df in the same order; Sex values [1, 2, 3] give male, female, others.
C6_GenderFirstMatch ==
    /\ Ran("derive") =>
          LET D == Val("df").rows
              W == At(140).rows
              X == At(148).rows
          IN  /\ Len(W) = Len(D) /\ Len(X) = Len(D)
              /\ \A i \in Indices(D) :
                    /\ W[i].gender = Some(GenderOf(D[i].Sex))
                    /\ \A c \in DOMAIN D[i] : W[i][c] = D[i][c]
                    /\ X[i] = [c \in DOMAIN W[i] \ {"Sex"} |-> W[i][c]]
    /\ LET res == with_columns(SexScenario, "gender", "Sex", gender_branches, gender_otherwise)
       IN  [i \in Indices(res.df.rows) |-> res.df.rows[i].gender]
              = <<Some("male"), Some("female"), Some("others")>>

\* The column has been derived for a row with a null Sex and a row with Sex 2.
C6_Witness ==
    /\ Ran("derive")
    /\ Len(Val("df").rows) = 2
    /\ Val("df").rows[1].Sex = Null
    /\ At(148).rows[1].gender = Some("others")
    /\ Val("df").rows[2].Sex = Some(2)
    /\ At(148).rows[2].gender = Some("female")

\* ---- C7 ----------------------------------------------------------------

\* Decimal integer literals of the values of df3 and the file.
Spelled == IntLiteral @@ ("0" :> 0) @@ ("4" :> 4)

\* Cell y of dtype `to` holds the value of cell x of dtype `from`: the same
\* value, or the decimal text of the number where a number became text.
Kept(x, from, y, to) ==
    IF x = Null THEN y = Null
    ELSE IF from # "String" /\ to = "String"
         THEN y # Null /\ y[1] \in DOMAIN Spelled /\ Spelled[y[1]] = x[1]
         ELSE y = x

\* df_concat has |df| + |df3| rows, first the values of the rows of df in
\* order, then those of the rows of df3 in order, with count as Int64.
FirstThenSecond ==
    LET A == Val("df")
        B == Val("df3")
        C == Val("df_concat")
    IN  /\ A.dtypes["count"] = "Int32" /\ B.dtypes["count"] = "Int64"
        /\ C.dtypes["count"] = "Int64"
        /\ C.columns = A.columns /\ A.columns = B.columns
        /\ Len(C.rows) = Len(A.rows) + Len(B.rows)
        /\ \A i \in Indices(A.rows) : \A c \in Range(A.columns) :
              Kept(A.rows[i][c], A.dtypes[c], C.rows[i][c], C.dtypes[c])
        /\ \A i \in Indices(B.rows) : \A c \in Range(B.columns) :
              Kept(B.rows[i][c], B.dtypes[c], C.rows[Len(A.rows) + i][c], C.dtypes[c])

\* A column of df is of another kind than the column of df3 (integer).
KindsDiffer == \E c \in Range(Val("df").columns) : Val("df").dtypes[c] = "String"

\* C7 as claimed: the concat of df (count Int32) and df3 (count Int64), which
\* have the same column names, has |df| + |df3| rows, first the rows of df in
\* order, then the rows of df3 in order, with every count unchanged as Int64;
\* when a column of df is text where df3's is integer the concat fails with
\* SchemaMismatchError and produces no result.
C7_KindMismatchFails ==
    /\ Ran("concat") => FirstThenSecond
    /\ (Ran("load") /\ csv.header = AllColumns /\ KindsDiffer) =>
          /\ ~Made(316) /\ ~Bound("df_concat")
          /\ pc # "done"
          /\ err \in {"", "SchemaMismatchError"}

\* C7 amended: the concat of df (count Int32) and df3 (count Int64), which
\* have the same column names, never fails; it has |df| + |df3| rows, first
\* the rows of df in order, then the rows of df3 in order, with every count
\* unchanged as Int64; a column that is text in df and integer in df3 is a
\* String column of the result, with df's texts unchanged and df3's numbers
\* as their decimal text; every other column has the wider of its two dtypes.
C7_ConcatFirstThenSecond ==
    /\ Ran("concat") =>
          /\ FirstThenSecond
          /\ \A c \in Range(Val("df").columns) :
                Val("df_concat").dtypes[c] =
                   IF Val("df").dtypes[c] = "String" THEN "String" ELSE "Int64"
    /\ (Ran("load") /\ csv.header = AllColumns) => err = ""

\* The concat has run on a df that holds the largest Int32 count and a text
\* Area: Area is a String column of the result.
C7_Witness ==
    /\ Ran("concat")
    /\ KindsDiffer
    /\ Len(Val("df_concat").rows) = 6
    /\ Val("df_concat").dtypes["Area"] = "String"
    /\ Val("df_concat").rows[1]["count"] = Some(2147483647)
    /\ Val("df_concat").rows[2]["Area"] = Some("Total")
    /\ Val("df_concat").rows[6]["Area"] = Some("4")
    /\ Val("df_concat").rows[6]["count"] = Some(4000)

\* ---- C8 ----------------------------------------------------------------

RECURSIVE IsSubsequence(_, _)
IsSubsequence(sub, seq) ==
    IF sub = <<>> THEN TRUE
    ELSE IF seq = <<>> THEN FALSE
    ELSE IF Head(sub) = Head(seq) THEN IsSubsequence(Tail(sub), Tail(seq))
    ELSE IsSubsequence(sub, Tail(seq))

\* res holds exactly the rows of in that are in `holding`, in their order.
IsFilterOf(res, in, holding) ==
    /\ \A i \in Indices(res) : res[i] \in holding
    /\ \A k \in Indices(in) : Count(res, in[k]) = IF in[k] \in holding THEN Count(in, in[k]) ELSE 0
    /\ IsSubsequence(res, in)
    /\ Len(res) <= Len(in)

YearScenario == DataFrame(<<"Year">>, [Year |-> <<2005, 2007, 2010>>])

\* C8: df_basic_filter holds exactly the rows with Year < 2007 and
\* df_basic_filter_range exactly those with 2006 <= Year <= 2013, in input
\* order; a row with a null Year is in neither; neither has more rows than
\* the input; Years [2005, 2007, 2010] leave only the 2005 row.
C8_FilterExact ==
    /\ Ran("filter") =>
          /\ IsFilterOf(Val("df_basic_filter").rows, At(148).rows,
                        {r \in Range(At(148).rows) : r.Year # Null /\ r.Year[1] < 2007})
          /\ IsFilterOf(Val("df_basic_filter_range").rows, At(148).rows,
                        {r \in Range(At(148).rows) :
                            r.Year # Null /\ 2006 <= r.Year[1] /\ r.Year[1] <= 2013})
    /\ filter(YearScenario, lt(series(YearScenario, "Year"), 2007)).df.rows
          = <<[Year |-> Some(2005)]>>

\* The filters have run on a frame with the Years 2013 and null.
C8_Witness ==
    /\ Ran("filter")
    /\ {At(148).rows[i].Year : i \in Indices(At(148).rows)} = {Some(2013), Null}
    /\ Val("df_basic_filter").rows = <<>>
    /\ Len(Val("df_basic_filter_range").rows) = 1

\* ---- C9 ----------------------------------------------------------------

\* The lines printed once the blocks before `step` have run.
LinesBefore(step) == [i \in 1..(StepIndex(step) - 1) |-> TimingLine[Steps[i]]]

\* Source lines of the calls of the blocks from `step` on.
CallsFrom(step) ==
    {l \in {33, 56, 113, 117, 140, 148, 168, 175, 198, 216, 250, 268, 271,
            277, 279, 298, 316, 319, 320} :
        l >= CASE step = "load" -> 33 [] step = "load_pd" -> 56
               [] step = "select" -> 113 [] step = "derive" -> 140
               [] step = "filter" -> 168 [] step = "sort" -> 198
               [] step = "group" -> 216 [] step = "join" -> 250
               [] step = "concat" -> 298 [] OTHER -> 321}

\* C9: the blocks run in file order, each once; the timing lines printed are
\* those of the blocks that ran to their end; no call of a later block is
\* made (of the block that failed, only statements before the failing one
\* have run); after a failure nothing runs and nothing is printed; without
\* failure the run ends after the concat line.
C9_ErrorsAbort ==
    /\ [](/\ out = LinesBefore(pc)
          /\ \A l \in CallsFrom(IF err = "" THEN pc ELSE AfterStep(pc)) : ~Made(l)
          /\ err \in {"", "ParseError", "SchemaMismatchError", "MissingColumnError"}
          /\ (pc = "done" => err = "" /\ Len(out) = Len(Steps)))
    /\ [][/\ err = ""
          /\ pc # "done"
          /\ \/ pc' = AfterStep(pc) /\ err' = "" /\ out' = Append(out, TimingLine[pc])
             \/ pc' = pc /\ err' # "" /\ out' = out]_vars

\* The concat failed after the eight blocks before it had run: df3 is bound,
\* df_concat is not.
C9_Witness ==
    /\ pc = "concat"
    /\ err = "SchemaMismatchError"
    /\ Len(out) = 8
    /\ Bound("df_inner_join")
    /\ Bound("df3")
    /\ Made(298)
    /\ ~Bound("df_concat")
    /\ ~Made(316)

\* ---- C10 ---------------------------------------------------------------

\* C10: no call changes an object that exists (its result is a new object),
\* and df stays bound to the object read_csv made: after any prefix of the
\* script it has the columns of the file, Sex among them and no gender, and
\* its rows in file order.
C10_InputsUnchanged ==
    /\ [][/\ \A i \in 1..Len(heap) : Len(heap') >= i /\ heap'[i] = heap[i]
          /\ Bound("df") => env'["df"] = env["df"]]_vars
    /\ [](Ran("load") =>
            /\ Val("df") = At(33)
            /\ Val("df").columns = csv.header
            /\ "gender" \notin Range(Val("df").columns)
            /\ Len(Val("df").rows) = Len(csv.lines)
            /\ \A i \in Indices(csv.lines) :
                  \A c \in Range(csv.header) :
                     \/ Val("df").rows[i][c] = Null
                     \/ Val("df").rows[i][c] =
                           IF TextColumn(c) THEN Some(csv.lines[i][c])
                           ELSE Some(IntLiteral[csv.lines[i][c]]))
    /\ [](Ran("join") => "Sex" \in Range(Val("df_inner_join").columns)
                         /\ "gender" \notin Range(Val("df_inner_join").columns))

\* The whole script has run on a file whose lines are not in Year order.
C10_Witness ==
    /\ pc = "done"
    /\ Len(Val("df").rows) = 2
    /\ Val("df").rows[1].Year = Some(2013)
    /\ Val("df").rows[2].Year = Some(2006)
    /\ At(198).rows[1].Year = Some(2006)

====
